---- MODULE Spec2Model ----
(***************************************************************************)
(* A model of stock-bottom-alert (src/monitor.py, src/line_push.py).       *)
(*                                                                         *)
(* Spec        : the batch job main(), run repeatedly over local days,     *)
(*               with the state file carried from run to run.              *)
(* SpecClassify: the pure function classify on bounded inputs.             *)
(* SpecCloses  : the pure function closest_close_before on bounded inputs. *)
(*                                                                         *)
(* Optional values (Optional[float], a nullable JSON field) are sequences  *)
(* of length at most one: None == <<>>, Some(v) == <<v>>.  Prices, zone    *)
(* bounds and closes are integers; the float comparisons of classify are   *)
(* done exactly, with both sides multiplied by 100.  The status the code   *)
(* writes as the dash string is written "NONE".                            *)
(***************************************************************************)
EXTENDS Integers, Sequences, FiniteSets, TLC

VARIABLES
    clock,       \* the current local (UTC+9) day, as a day number
    stateFile,   \* the file at STATE_PATH
    runs,        \* the number of invocations of main() started so far
    pc,          \* the position of the current run inside main()
    env,         \* the environment of the current run (notifier configuration)
    state,       \* main's local: the loaded state
    today,       \* main's local: jst_day_key() at line 212
    zones,       \* main's local: the loaded zone rows
    records,     \* main's local: one record per zone (the DataFrame df)
    fetched,     \* the current run has fetched prices
    rendered,    \* the current run has called render
    pushed,      \* the outcome of push_message in the current run, or "none"
    exitKind,    \* how the run ended: "running", "returned", "raised"
    errorAt,     \* where the exception of the run was raised, or "none"
    preFile,     \* history: the state file when the current run started
    sentCount,   \* history: per local day, the notifications delivered by runs of that day
    prevFailed,  \* history: the hits of the preceding run when its send failed, else <<>>
    lastSent,    \* history: the day and the tickers of the last delivered notification, or None
    between,     \* history: the hit ticker sets of the finished runs since that notification
    cl_in,       \* SpecClassify: the arguments of classify
    cl_out,      \* SpecClassify: the value classify returned
    cc_in,       \* SpecCloses: the arguments of closest_close_before and the day
    cc_out       \* SpecCloses: the value closest_close_before returned

vars == <<clock, stateFile, runs, pc, env, state, today, zones, records, fetched,
          rendered, pushed, exitKind, errorAt, preFile, sentCount, prevFailed,
          cl_in, cl_out, cc_in, cc_out>>

mainVars == <<clock, stateFile, runs, pc, env, state, today, zones, records, fetched,
              rendered, pushed, exitKind, errorAt, preFile, sentCount, prevFailed, lastSent, between>>

----------------------------------------------------------------------------
(* Bounds *)

MaxDay == 2
MaxRuns == 3
MaxPrice == 5
MaxDate == 4
MaxClose == 2
MaxAgo == 2

(* Program constants *)

DefaultNearPct == 5

None == <<>>

Some(v) == <<v>>

----------------------------------------------------------------------------
(* classify, src/monitor.py 122-139 *)

\* variant: the near band without its outer edges
classify_StrictBand(price, low, high, near_pct) ==
    IF price = None THEN "NONE"
    ELSE LET p == price[1] IN
         IF low <= p /\ p <= high THEN "IN_ZONE"
         ELSE IF p > high /\ 100 * p < high * (100 + near_pct) THEN "NEAR"
         ELSE IF p < low /\ 100 * p > low * (100 - near_pct) THEN "NEAR"
         ELSE "NONE"

classify(price, low, high, near_pct) ==
    IF price = None THEN "NONE"
    ELSE LET p == price[1] IN
         IF low <= p /\ p <= high THEN "IN_ZONE"
         ELSE IF p > high /\ 100 * p <= high * (100 + near_pct) THEN "NEAR"
         ELSE IF p < low /\ 100 * p >= low * (100 - near_pct) THEN "NEAR"
         ELSE "NONE"

----------------------------------------------------------------------------
(* closest_close_before, src/monitor.py 90-106.  A series is None or a     *)
(* function from its index (a set of dates) to closes; target is the local *)
(* day minus days_ago.                                                     *)

SetMax(S) == CHOOSE d \in S : \A e \in S : e <= d

\* variant: only the dates before the target
candidates_Strict(closes, target) == {d \in DOMAIN closes : d < target}

candidates(closes, target) == {d \in DOMAIN closes : d <= target}

closest_close_before(closes, days_ago, now) ==
    IF closes = None \/ DOMAIN closes = {} THEN None
    ELSE LET target == now - days_ago
             cands == candidates(closes, target)
         IN  IF cands = {} THEN None
             ELSE Some(closes[SetMax(cands)])

----------------------------------------------------------------------------
(* The zone list, src/monitor.py 29-41.  A CSV row holds the raw Ticker    *)
(* cell and the two bound cells; numeric says whether float() accepts      *)
(* both.  The Name column does not reach the notification decision and is  *)
(* left out.                                                               *)

Upper(t) == IF t = "a" THEN "A" ELSE t

Row(t, lo, hi, ok) == [Ticker |-> t, ZoneLow |-> lo, ZoneHigh |-> hi, numeric |-> ok]

CsvFiles ==
    { <<>>,
      << Row("", 0, 0, FALSE) >>,
      << Row("A", 20, 40, TRUE) >>,
      << Row("a", 20, 40, TRUE), Row("B", 100, 100, TRUE) >>,
      << Row("A", 20, 40, TRUE), Row("B", 0, 0, FALSE) >> }

RECURSIVE load_zones(_)
\* the rows of the file, or "ValueError" when float() rejects a cell of a
\* row that is not skipped
load_zones(csv) ==
    IF csv = <<>> THEN [raised |-> FALSE, rows |-> <<>>]
    ELSE LET r == Head(csv)
             ticker == Upper(r.Ticker)
             rest == load_zones(Tail(csv))
         IN  IF ticker = "" THEN rest
             ELSE IF ~r.numeric THEN [raised |-> TRUE, rows |-> <<>>]
             ELSE IF rest.raised THEN rest
             ELSE [raised |-> FALSE,
                   rows |-> <<[ticker |-> ticker, zone_low |-> r.ZoneLow,
                               zone_high |-> r.ZoneHigh]>> \o rest.rows]

(* The prices the price source may return for a ticker: absent, below the  *)
(* near band, in the near band, in the zone of A, in the zone of B.        *)
Prices == {None, Some(10), Some(19), Some(30), Some(100)}

----------------------------------------------------------------------------
(* The state file, src/monitor.py 142-155.  A parsed JSON value is an      *)
(* object or something else; an object's last_sent_day is None (null or    *)
(* missing) or Some(day); its last_sent_hits is null or a list (a missing  *)
(* key reads as the empty list, line 267), whose entries are objects with  *)
(* Ticker and Status, or something else.                                   *)

Entry(t, s) == [obj |-> TRUE, Ticker |-> t, Status |-> s]

NonObjectEntry == [obj |-> FALSE, Ticker |-> "", Status |-> ""]

JList(items) == [null |-> FALSE, items |-> items]

JNull == [null |-> TRUE, items |-> <<>>]

JObject(day, hits) == [object |-> TRUE, last_sent_day |-> day, last_sent_hits |-> hits]

JOther == [object |-> FALSE, last_sent_day |-> None, last_sent_hits |-> JList(<<>>)]

DefaultState == JObject(None, JList(<<>>))

NoFile == [exists |-> FALSE, parses |-> FALSE, json |-> DefaultState]

Unparsable == [exists |-> TRUE, parses |-> FALSE, json |-> DefaultState]

JsonFile(v) == [exists |-> TRUE, parses |-> TRUE, json |-> v]

load_state(file) ==
    IF ~file.exists THEN DefaultState
    ELSE IF ~file.parses THEN DefaultState
    ELSE file.json

save_state(st) == JsonFile(st)

(* The state files a first run may find: none, and the damaged ones.       *)
InitialFiles ==
    { NoFile,
      Unparsable,
      JsonFile(DefaultState),
      JsonFile(JOther),
      JsonFile(JObject(None, JNull)),
      JsonFile(JObject(None, JList(<<NonObjectEntry>>))) }

----------------------------------------------------------------------------
(* The notification decision, src/monitor.py 258-271 *)

IsHit(r) == r.Status \in {"IN_ZONE", "NEAR"}

Hits(recs) == SelectSeq(recs, IsHit)

TickerSet(hs) == {hs[i].Ticker : i \in 1..Len(hs)}

HitList(hs) == [i \in 1..Len(hs) |-> Entry(hs[i].Ticker, hs[i].Status)]

\* line 259 (and the variant without the check)
hits_empty_CheckDropped(recs) == FALSE

hits_empty(recs) == Hits(recs) = <<>>

\* line 263 (and the variant without the daily cap)
sent_today_CheckDropped(st, day) == FALSE

sent_today(st, day) == st.last_sent_day = Some(day)

\* line 267: the comprehension raises on a null list and on an entry without .get
last_hits_raises(st) ==
    \/ st.last_sent_hits.null
    \/ \E i \in 1..Len(st.last_sent_hits.items) : ~st.last_sent_hits.items[i].obj

\* variant: only the entries sent as IN_ZONE count as notified
last_hits_InZoneOnly(st) ==
    {st.last_sent_hits.items[i].Ticker : i \in
        {j \in 1..Len(st.last_sent_hits.items) :
            /\ st.last_sent_hits.items[j].Ticker # ""
            /\ st.last_sent_hits.items[j].Status = "IN_ZONE"}}

last_hits(st) ==
    {st.last_sent_hits.items[i].Ticker : i \in
        {j \in 1..Len(st.last_sent_hits.items) : st.last_sent_hits.items[j].Ticker # ""}}

\* line 269 (and the variant without the comparison)
same_hits_CheckDropped(current, last) == FALSE

same_hits(current, last) == current # {} /\ current = last

----------------------------------------------------------------------------
(* push_message, src/line_push.py 5-32 *)

Envs == [token : BOOLEAN, to_id : BOOLEAN]

PushOutcomes(e) ==
    IF ~e.token \/ ~e.to_id THEN {"missing_env"}
    ELSE {"ok", "http_error", "network_error"}

\* variant: the error of the send is swallowed
push_raises_Swallowed(outcome) == FALSE

push_raises(outcome) == outcome # "ok"

\* lines 277-278 (and the variant that records the day alone)
record_sent_DayOnly(st, day, hs) == [st EXCEPT !.last_sent_day = Some(day)]

record_sent(st, day, hs) ==
    [st EXCEPT !.last_sent_day = Some(day), !.last_sent_hits = JList(HitList(hs))]

----------------------------------------------------------------------------
(* main(), src/monitor.py 204-281, one action per step.  NEAR_PCT is left  *)
(* at its default.  The 7/30/90-day closes and percent changes (lines      *)
(* 223-230) are columns that only the dashboard reads; records keeps the   *)
(* columns the decision and the message read.                              *)

Return ==
    /\ pc' = "done"
    /\ exitKind' = "returned"
    /\ errorAt' = "none"

Raise(where) ==
    /\ pc' = "done"
    /\ exitKind' = "raised"
    /\ errorAt' = where

\* the local day advances
Tick ==
    /\ clock < MaxDay
    /\ clock' = clock + 1
    /\ UNCHANGED <<stateFile, runs, pc, env, state, today, zones, records, fetched,
                   rendered, pushed, exitKind, errorAt, preFile, sentCount, prevFailed, lastSent, between>>

\* lines 205-212: a new process starts, reads its environment, the state and the day
Start(e) ==
    /\ pc \in {"idle", "done"}
    /\ runs < MaxRuns
    /\ runs' = runs + 1
    /\ env' = e
    /\ state' = load_state(stateFile)
    /\ today' = clock
    /\ preFile' = stateFile
    /\ prevFailed' = IF pushed \notin {"none", "ok"} THEN HitList(Hits(records)) ELSE <<>>
    /\ zones' = <<>>
    /\ records' = <<>>
    /\ fetched' = FALSE
    /\ rendered' = FALSE
    /\ pushed' = "none"
    /\ exitKind' = "running"
    /\ errorAt' = "none"
    /\ pc' = "load_zones"
    /\ between' = IF lastSent # None /\ fetched /\ pushed # "ok"
                  THEN between \cup {TickerSet(Hits(records))}
                  ELSE between
    /\ UNCHANGED <<clock, stateFile, sentCount, lastSent>>

\* lines 214-217
LoadZones(csv) ==
    /\ pc = "load_zones"
    /\ LET z == load_zones(csv) IN
        \/ /\ z.raised
           /\ Raise("load_zones")
           /\ UNCHANGED zones
        \/ /\ ~z.raised
           /\ z.rows = <<>>
           /\ Return
           /\ UNCHANGED zones
        \/ /\ ~z.raised
           /\ z.rows # <<>>
           /\ zones' = z.rows
           /\ pc' = "fetch"
           /\ UNCHANGED <<exitKind, errorAt>>
    /\ UNCHANGED <<clock, stateFile, runs, env, state, today, records, fetched,
                   rendered, pushed, preFile, sentCount, prevFailed, lastSent, between>>

\* lines 219-253: a price per zone, absent when the source fails
FetchAll(prices) ==
    /\ pc = "fetch"
    /\ records' = [i \in 1..Len(zones) |->
                     [Ticker |-> zones[i].ticker,
                      LastPrice |-> prices[i],
                      Status |-> classify(prices[i], zones[i].zone_low,
                                          zones[i].zone_high, DefaultNearPct)]]
    /\ fetched' = TRUE
    /\ pc' = "render"
    /\ UNCHANGED <<clock, stateFile, runs, env, state, today, zones, rendered,
                   pushed, exitKind, errorAt, preFile, sentCount, prevFailed, lastSent, between>>

\* line 256
Render ==
    /\ pc = "render"
    /\ rendered' = TRUE
    /\ pc' = "decide"
    /\ UNCHANGED <<clock, stateFile, runs, env, state, today, zones, records, fetched,
                   pushed, exitKind, errorAt, preFile, sentCount, prevFailed, lastSent, between>>

\* lines 258-271
Decide ==
    /\ pc = "decide"
    /\ \/ /\ hits_empty(records)
          /\ Return
       \/ /\ ~hits_empty(records)
          /\ ~state.object
          /\ Raise("state")
       \/ /\ ~hits_empty(records)
          /\ state.object
          /\ sent_today(state, today)
          /\ Return
       \/ /\ ~hits_empty(records)
          /\ state.object
          /\ ~sent_today(state, today)
          /\ last_hits_raises(state)
          /\ Raise("state")
       \/ /\ ~hits_empty(records)
          /\ state.object
          /\ ~sent_today(state, today)
          /\ ~last_hits_raises(state)
          /\ same_hits(TickerSet(Hits(records)), last_hits(state))
          /\ Return
       \/ /\ ~hits_empty(records)
          /\ state.object
          /\ ~sent_today(state, today)
          /\ ~last_hits_raises(state)
          /\ ~same_hits(TickerSet(Hits(records)), last_hits(state))
          /\ pc' = "push"
          /\ UNCHANGED <<exitKind, errorAt>>
    /\ UNCHANGED <<clock, stateFile, runs, env, state, today, zones, records, fetched,
                   rendered, pushed, preFile, sentCount, prevFailed, lastSent, between>>

\* lines 273-275
Push(outcome) ==
    /\ pc = "push"
    /\ outcome \in PushOutcomes(env)
    /\ pushed' = outcome
    /\ sentCount' = IF outcome = "ok" THEN [sentCount EXCEPT ![today] = @ + 1]
                    ELSE sentCount
    /\ \/ /\ push_raises(outcome)
          /\ Raise("push_message")
       \/ /\ ~push_raises(outcome)
          /\ pc' = "record"
          /\ UNCHANGED <<exitKind, errorAt>>
    /\ lastSent' = IF outcome = "ok"
                   THEN Some([day |-> today, tickers |-> TickerSet(Hits(records))])
                   ELSE lastSent
    /\ between' = IF outcome = "ok" THEN {} ELSE between
    /\ UNCHANGED <<clock, stateFile, runs, env, state, today, zones, records, fetched,
                   rendered, preFile, prevFailed>>

\* lines 277-281
Record ==
    /\ pc = "record"
    /\ state' = record_sent(state, today, Hits(records))
    /\ stateFile' = save_state(state')
    /\ Return
    /\ UNCHANGED <<clock, runs, env, today, zones, records, fetched, rendered,
                   pushed, preFile, sentCount, prevFailed, lastSent, between>>

MainInit ==
    /\ clock = 1
    /\ stateFile \in InitialFiles
    /\ runs = 0
    /\ pc = "idle"
    /\ env = [token |-> TRUE, to_id |-> TRUE]
    /\ state = DefaultState
    /\ today = 1
    /\ zones = <<>>
    /\ records = <<>>
    /\ fetched = FALSE
    /\ rendered = FALSE
    /\ pushed = "none"
    /\ exitKind = "running"
    /\ errorAt = "none"
    /\ preFile = stateFile
    /\ sentCount = [d \in 1..MaxDay |-> 0]
    /\ prevFailed = <<>>
    /\ lastSent = None
    /\ between = {}

Init ==
    /\ MainInit
    /\ cl_in = <<>>
    /\ cl_out = "unset"
    /\ cc_in = <<>>
    /\ cc_out = [called |-> FALSE, value |-> None]

Next ==
    \/ /\ Tick
       /\ UNCHANGED <<cl_in, cl_out, cc_in, cc_out>>
    \/ /\ \E e \in Envs : Start(e)
       /\ UNCHANGED <<cl_in, cl_out, cc_in, cc_out>>
    \/ /\ \E csv \in CsvFiles : LoadZones(csv)
       /\ UNCHANGED <<cl_in, cl_out, cc_in, cc_out>>
    \/ /\ \E prices \in [1..Len(zones) -> Prices] : FetchAll(prices)
       /\ UNCHANGED <<cl_in, cl_out, cc_in, cc_out>>
    \/ /\ Render
       /\ UNCHANGED <<cl_in, cl_out, cc_in, cc_out>>
    \/ /\ Decide
       /\ UNCHANGED <<cl_in, cl_out, cc_in, cc_out>>
    \/ /\ \E outcome \in {"ok", "http_error", "network_error", "missing_env"} : Push(outcome)
       /\ UNCHANGED <<cl_in, cl_out, cc_in, cc_out>>
    \/ /\ Record
       /\ UNCHANGED <<cl_in, cl_out, cc_in, cc_out>>

Spec == Init /\ [][Next]_vars

----------------------------------------------------------------------------
(* Properties of main() under Spec *)

\* the state the run loaded, read again from the file it started with
Loaded == load_state(preFile)

\* the loaded state is one the decision of lines 263-269 can read
Readable(st) == st.object /\ ~last_hits_raises(st)

CurrentTickers == TickerSet(Hits(records))

HasHits == fetched /\ Hits(records) # <<>>

NoHits == fetched /\ Hits(records) = <<>>

C2_SameHitsNoSend ==
    (HasHits /\ Readable(Loaded) /\ CurrentTickers = last_hits(Loaded))
        => (pushed = "none" /\ stateFile = preFile /\ exitKind # "raised")

\* the same hits on a later day than the last notification: the run returned silently
C2_Witness ==
    /\ pc = "done"
    /\ HasHits
    /\ Readable(Loaded)
    /\ CurrentTickers = last_hits(Loaded)
    /\ Loaded.last_sent_day # None
    /\ Loaded.last_sent_day # Some(today)
    /\ pushed = "none"

C4_FailedSendKeepsState ==
    /\ pushed \notin {"none", "ok"} =>
          /\ stateFile = preFile
          /\ pc = "done"
          /\ exitKind = "raised"
          /\ errorAt = "push_message"
    /\ (/\ pc = "done"
        /\ prevFailed # <<>>
        /\ HasHits
        /\ CurrentTickers = TickerSet(prevFailed)
        /\ Loaded.last_sent_day # Some(today))
          => pushed # "none"

\* the retry after a failed send went through and was recorded
C4_Witness ==
    /\ pc = "done"
    /\ prevFailed # <<>>
    /\ HitList(Hits(records)) = prevFailed
    /\ pushed = "ok"
    /\ stateFile # preFile

\* C5: a run without hits sends nothing and leaves the state file as it
\* found it, whatever the state and the day.
C5_NoHitsNoSend ==
    NoHits
        => (pushed = "none" /\ stateFile = preFile /\ exitKind # "raised")

\* a run without hits over a state that records an earlier notification
C5_Witness ==
    /\ pc = "done"
    /\ NoHits
    /\ exitKind = "returned"
    /\ Loaded.last_sent_day # None
    /\ Loaded.last_sent_day # Some(today)

\* C6: every run that returns normally has rendered the dashboard.
C6_AlwaysRenders == (pc = "done" /\ exitKind = "returned") => rendered

\* C7: a missing or damaged state file never fails the run: a run with hits
\* that started from one goes on to the send, as a first run does.
C7_CorruptStateNeverFatal ==
    (pc = "done" /\ preFile \in InitialFiles /\ HasHits)
        => (errorAt # "state" /\ pushed # "none")

\* C8: a run with the token or the recipient missing fails before any
\* price fetch or render.
C8_MissingConfigFatalAtStartup ==
    (pc # "idle" /\ (~env.token \/ ~env.to_id))
        => (~fetched /\ ~rendered /\ (pc = "done" => exitKind = "raised"))

----------------------------------------------------------------------------
(* classify on bounded inputs: every price (absent too), zone and          *)
(* threshold of the ranges below, inverted zones included, as load_zones   *)
(* accepts them.                                                           *)

Values == (0 - 2)..MaxPrice

NearPcts == {0, DefaultNearPct, 25, 50, 150}

ClassifyInputs ==
    [price : {None} \cup {Some(v) : v \in Values},
     low : Values, high : Values, near_pct : NearPcts]

InitClassify ==
    /\ MainInit
    /\ cl_in \in ClassifyInputs
    /\ cl_out = "unset"
    /\ cc_in = <<>>
    /\ cc_out = [called |-> FALSE, value |-> None]

ClassifyCall ==
    /\ cl_out = "unset"
    /\ cl_out' = classify(cl_in.price, cl_in.low, cl_in.high, cl_in.near_pct)
    /\ UNCHANGED <<cl_in, cc_in, cc_out>>
    /\ UNCHANGED mainVars

NextClassify == ClassifyCall

SpecClassify == InitClassify /\ [][NextClassify]_vars

\* what the claim says of one call: absent gives NONE, the zone is closed,
\* above the zone NEAR exactly up to high*(1+n/100), below it NEAR exactly
\* down to low*(1-n/100), otherwise NONE, and no NEAR at threshold 0
ReferenceHolds(in, out) ==
    /\ out \in {"IN_ZONE", "NEAR", "NONE"}
    /\ in.price = None => out = "NONE"
    /\ in.price # None =>
        LET p == in.price[1] IN
        /\ out = "IN_ZONE" <=> (in.low <= p /\ p <= in.high)
        /\ p > in.high =>
              (out = "NEAR" <=> 100 * p <= in.high * (100 + in.near_pct))
        /\ p < in.low =>
              (out = "NEAR" <=> 100 * p >= in.low * (100 - in.near_pct))
        /\ in.near_pct = 0 => out # "NEAR"

\* C9 as stated: classify agrees with the reference on every input with
\* near_pct >= 0.
C9_ClassifyReferenceAllInputs ==
    cl_out # "unset" => ReferenceHolds(cl_in, cl_out)

\* C9 as amended: classify agrees with the reference on every input with
\* near_pct >= 0 and low <= high.
C9_ClassifyReference ==
    (cl_out # "unset" /\ cl_in.low <= cl_in.high) => ReferenceHolds(cl_in, cl_out)

\* a price below a proper zone, exactly on the lower edge of the near band
C9_Witness ==
    /\ cl_out = "NEAR"
    /\ cl_in.low < cl_in.high
    /\ cl_in.price # None
    /\ cl_in.price[1] < cl_in.low
    /\ 100 * cl_in.price[1] = cl_in.low * (100 - cl_in.near_pct)

----------------------------------------------------------------------------
(* closest_close_before on bounded inputs: every series over the dates     *)
(* 1..MaxDate (the absent series is the empty one), every lookback up to   *)
(* MaxAgo days, every local day.                                           *)

SeriesSet == UNION {[S -> 1..MaxClose] : S \in SUBSET (1..MaxDate)}

ClosesInputs == [closes : SeriesSet, days_ago : 0..MaxAgo, now : 1..MaxDate]

InitCloses ==
    /\ MainInit
    /\ cl_in = <<>>
    /\ cl_out = "unset"
    /\ cc_in \in ClosesInputs
    /\ cc_out = [called |-> FALSE, value |-> None]

ClosesCall ==
    /\ ~cc_out.called
    /\ cc_out' = [called |-> TRUE,
                  value |-> closest_close_before(cc_in.closes, cc_in.days_ago, cc_in.now)]
    /\ UNCHANGED <<cl_in, cl_out, cc_in>>
    /\ UNCHANGED mainVars

NextCloses == ClosesCall

SpecCloses == InitCloses /\ [][NextCloses]_vars

OnOrBefore == {d \in DOMAIN cc_in.closes : d <= cc_in.now - cc_in.days_ago}

\* C10: the result is the close of the latest date of the series on or
\* before the target, and it is absent exactly when the series has no such
\* date (the absent or empty series has none).
C10_LatestOnOrBefore ==
    cc_out.called =>
        /\ cc_out.value = None <=> OnOrBefore = {}
        /\ cc_out.value # None =>
              \E d \in OnOrBefore :
                  /\ \A e \in OnOrBefore : e <= d
                  /\ cc_out.value = Some(cc_in.closes[d])

\* the target is no date of the series: the call stepped back over a gap, past
\* an earlier date with another close, and left a later date with another close
C10_Witness ==
    /\ cc_out.called
    /\ cc_out.value # None
    /\ (cc_in.now - cc_in.days_ago) \notin DOMAIN cc_in.closes
    /\ Cardinality(OnOrBefore) = 2
    /\ \E d \in OnOrBefore : cc_out.value # Some(cc_in.closes[d])
    /\ \E d \in DOMAIN cc_in.closes :
          d > cc_in.now - cc_in.days_ago /\ cc_out.value # Some(cc_in.closes[d])

====
